---- MODULE Spec2Model ----
(***************************************************************************)
(* Chunked download of a transaction's data (src/src/common/chunks.ts) and *)
(* the fixed-size rechunker exercised by src/tests/stream/chunker.test.ts. *)
(*                                                                         *)
(* One invocation of the async generator concurrentDownloadChunkedData is  *)
(* modelled between its suspension points: the await of the metadata       *)
(* request, the await of a chunk promise, and the yield to the consumer.   *)
(* Chunk fetches complete independently, in any order.  The settlement of a *)
(* promise (FetchDone) and the resumption of the generator that awaits it   *)
(* (Deliver, Throw) are separate steps, as they are separate jobs of the    *)
(* event loop; processedBytes is updated by the then-callback at settlement.*)
(***************************************************************************)
EXTENDS Integers, Sequences, FiniteSets, TLC

\* ------------------------------------------------------------------ bounds
\* Largest chunk count (ceil(size / MAX_CHUNK_SIZE)) of a declared size.
MaxChunks == 5
\* Largest explicitly configured concurrency (the default is also drawn).
MaxConcurrency == 2
\* Largest first-chunk offset a metadata response places the content at.
MaxStart == 1

\* Most bytes pushed into one ChunkBuffer / fed to one chunker.
MaxBytes == 5
\* Longest buffer pushed at once.
MaxSeg == 3
\* Most buffers pushed into one ChunkBuffer / fed to one chunker.
MaxPushes == 3
\* Largest pop(n) request and largest chunker chunk size.
MaxPop == 3

\* ------------------------------------------------------- program constants
\* import { MAX_CHUNK_SIZE } from "./lib/merkle"  (256 KiB)
MAX_CHUNK_SIZE == 262144
\* const opts = { concurrency: 10, ...options }
DefaultConcurrency == 10

Half == MAX_CHUNK_SIZE \div 2

\* Declared sizes the metadata endpoint may answer: 0, and every multiple of
\* half a chunk up to MaxChunks chunks (exact multiples and sizes in between).
Sizes == {k * Half : k \in 0..(2 * MaxChunks)}
\* First-chunk offsets; the response carries offset = start + size - 1.
Starts == 1..MaxStart
\* Byte lengths of the chunk a chunk request may return: a full chunk, or a
\* shorter one (after rebalancing a tail chunk is shorter than MAX_CHUNK_SIZE).
Lens == {Half, MAX_CHUNK_SIZE}
\* HTTP statuses of a response.
Statuses == {200, 404}
\* options.concurrency
Concurrencies == (1..MaxConcurrency) \cup {DefaultConcurrency}
\* Chunk indices a fetch can be issued for within the bounds.
Indices == 0..(MaxChunks + 1)
NoChunk == 0 - 1

VARIABLES
  call,            \* entry point invoked: "none", "stream", "download"
  opt,             \* opts.concurrency
  pc,              \* generator: "idle","meta","await","yielded","done","failed"
  phase,           \* which yield the generator is at: "window","drain","tail1","tail2"
  err,             \* error thrown by the generator: "none","metadata","chunk","size"
  size,            \* size (metadata.size) of the generator
  startOffset,     \* startOffset of the generator
  currChunk,       \* currChunk
  processing,      \* processing: FIFO of promises, each named by its chunk index
  awaiting,        \* chunk index of the promise the generator awaits, or NoChunk
  fstat,           \* per chunk index: "none","pending","ok","failed"
  flen,            \* per chunk index: byte length of the resolved chunk
  fresp,           \* per chunk index: HTTP status of the response (0: none yet)
  completed,       \* chunk indices in the order their responses arrived
  mresp,           \* HTTP statuses of the metadata responses received, in order
  processedBytes,  \* processedBytes
  yielded,         \* chunk indices yielded to the consumer, in order
  requests,        \* offsets of the chunk requests issued, in order
  metaReqs,        \* number of metadata requests issued
  consumer,        \* "pulling" or "stopped"
  stopMark,        \* number of chunk responses received when the consumer stopped
  proc,            \* the process: "running", "tolerant" (an unhandled rejection
                   \* was survived) or "exited" (an unhandled rejection ended it)
  unhandled,       \* the rejected promises without a handler that the runtime
                   \* has not looked at yet (by chunk index)
  dpc,             \* downloadChunkedData: "none","meta","loop","returned","failed"
  derr,            \* its error: "none","metadata","chunk","size","range"
  dsize,           \* its size (length of data)
  data,            \* writes done by data.set: records [at, idx, len]
  byte,            \* its byte
  buffers,         \* ChunkBuffer: the queued byte segments
  pushed,          \* number of bytes pushed so far; the k-th pushed byte is k
  pushLens,        \* lengths of the pushed segments, in order
  returned,        \* bytes returned by successful pops and flushes, concatenated
  lastOp,          \* last ChunkBuffer call: "none","push","pop","popfail","flush"
  lastArg,         \* n of the last pop(n)
  lastOut,         \* bytes returned by the last call
  cpc,             \* chunker: "idle","reading","done"
  chunkSize,       \* chunker's chunk size
  flushOpt,        \* chunker's flush option
  emitted          \* buffers yielded by the chunker, in order

gvars == <<pc, phase, err, size, startOffset, currChunk, processing, awaiting,
           fstat, flen, fresp, completed, mresp, processedBytes, yielded, requests>>
dvars == <<dpc, derr, dsize, data, byte>>
bvars == <<buffers, pushed, pushLens, returned, lastOp, lastArg, lastOut>>
cvars == <<cpc, chunkSize, flushOpt, emitted>>
vars == <<call, opt, metaReqs, consumer, stopMark, proc, unhandled, gvars, dvars, bvars, cvars>>

\* ------------------------------------------------------------ pure helpers
Min(a, b) == IF a < b THEN a ELSE b

RECURSIVE SumLen(_, _)
\* Total byte length of the chunks named in sequence s, with lengths l.
SumLen(s, l) == IF s = <<>> THEN 0 ELSE l[Head(s)] + SumLen(Tail(s), l)

\* Variant: the status of the metadata response is not checked.
MetadataUnchecked(status) == TRUE

\* resp.status === 200 in getTransactionMetadata
MetadataOk(status) == status = 200

\* Variant: the status of the chunk response is not checked.
ChunkUnchecked(status) == TRUE

\* resp.status === 200 in getChunk
ChunkOk(status) == status = 200

\* firstChunkOffset / endOffset.minus(size).plus(1)
FirstChunkOffset(offset, sz) == offset - sz + 1

\* Math.ceil(size.dividedBy(MAX_CHUNK_SIZE).toNumber())
ChunkCount(sz) == (sz + MAX_CHUNK_SIZE - 1) \div MAX_CHUNK_SIZE

\* Variant: chunks - 1, only the last chunk kept out of the window.
AllButOne(sz) == ChunkCount(sz) - 1

\* const parallelChunks = chunks - 2
ParallelChunks(sz) == ChunkCount(sz) - 2

\* const concurrency = Math.min(parallelChunks, opts.concurrency)
Concurrency(sz, c) == Min(ParallelChunks(sz), c)

\* Variant: MAX_CHUNK_SIZE * ++currChunk, the index incremented before its use.
ChunkOffsetNext(so, i) == so + MAX_CHUNK_SIZE * (i + 1)

\* startOffset.plus(MAX_CHUNK_SIZE * currChunk)
ChunkOffset(so, i) == so + MAX_CHUNK_SIZE * i

\* Variant: processing[0], the oldest promise read but left in the queue.
Peek(q) == [val |-> Head(q), rest |-> q]

\* Variant: processing.pop(), the newest promise instead of the oldest.
PopNewest(q) == [val |-> q[Len(q)], rest |-> SubSeq(q, 1, Len(q) - 1)]

\* processing.shift(): the promise removed and the queue left
Shift(q) == [val |-> Head(q), rest |-> Tail(q)]

\* Variant: processedBytes = r.length, an assignment instead of +=.
Overwritten(pb, n) == n

\* processedBytes += r.length in the then-callback of downloadData
Counted(pb, n) == pb + n

\* Variant: size.isGreaterThanOrEqualTo(processedBytes).
NotExceeded(sz, pb) == sz >= pb

\* size.isGreaterThan(processedBytes): whether the second tail chunk is fetched
NeedsLastChunk(sz, pb) == sz > pb

\* Variant: only a shortfall is reported, size.isGreaterThan(processedBytes).
SizeReached(sz, pb) == sz <= pb

\* size.isEqualTo(processedBytes): the final check
SizeMatches(sz, pb) == sz = pb

\* --------------------------------------------------------------- Init
Init ==
  /\ call = "none" /\ opt = 0 /\ metaReqs = 0 /\ consumer = "pulling"
  /\ stopMark = NoChunk /\ proc = "running" /\ unhandled = {}
  /\ pc = "idle" /\ phase = "none" /\ err = "none"
  /\ size = 0 /\ startOffset = 0 /\ currChunk = 0
  /\ processing = <<>> /\ awaiting = NoChunk
  /\ fstat = [i \in Indices |-> "none"]
  /\ flen = [i \in Indices |-> 0]
  /\ fresp = [i \in Indices |-> 0]
  /\ completed = <<>> /\ mresp = <<>>
  /\ processedBytes = 0 /\ yielded = <<>> /\ requests = <<>>
  /\ dpc = "none" /\ derr = "none" /\ dsize = 0 /\ data = <<>> /\ byte = 0
  /\ buffers = <<>> /\ pushed = 0 /\ pushLens = <<>> /\ returned = <<>>
  /\ lastOp = "none" /\ lastArg = 0 /\ lastOut = <<>>
  /\ cpc = "idle" /\ chunkSize = 0 /\ flushOpt = FALSE /\ emitted = <<>>

\* ------------------------------------------------- the generator's steps
\* downloadData(offset) issued for chunk index i: a pending promise
Issued(fs, i) == [fs EXCEPT ![i] = "pending"]

\* The generator suspends on the promise of chunk idx (yield <promise> awaits it,
\* which gives the promise its rejection handler).
Suspend(ph, idx, q, cc, fs, rq) ==
  /\ pc' = "await" /\ phase' = ph /\ awaiting' = idx
  /\ unhandled' = unhandled \ {idx}
  /\ processing' = q /\ currChunk' = cc /\ fstat' = fs /\ requests' = rq
  /\ UNCHANGED <<err, dpc, derr>>

\* The generator ends: return (p = "done") or throw (p = "failed", error e).
\* for await in downloadChunkedData then returns data or rethrows.
Finish(p, e) ==
  /\ pc' = p /\ err' = e /\ awaiting' = NoChunk
  /\ UNCHANGED <<phase, processing, currChunk, fstat, requests, unhandled>>
  /\ IF call = "download"
       THEN /\ dpc' = (IF p = "done" THEN "returned" ELSE "failed")
            /\ derr' = e
       ELSE UNCHANGED <<dpc, derr>>

\* line 131: if (!size.isEqualTo(processedBytes)) throw ...; return
FinalCheck(sz, pb) ==
  IF SizeMatches(sz, pb) THEN Finish("done", "none") ELSE Finish("failed", "size")

\* line 129: if (size.isGreaterThan(processedBytes)) yield downloadData(...)
AfterFirstTail(sz, so, pb, q, cc, fs, rq) ==
  IF NeedsLastChunk(sz, pb)
    THEN Suspend("tail2", cc, q, cc + 1, Issued(fs, cc), Append(rq, ChunkOffset(so, cc)))
    ELSE FinalCheck(sz, pb)

\* Variant: the first tail fetch is issued without draining the queue first.
TailUndrained(so, q, cc, fs, rq) ==
  Suspend("tail1", cc, q, cc + 1, Issued(fs, cc), Append(rq, ChunkOffset(so, cc)))

\* lines 126-128: while (processing.length > 0) yield processing.shift();
\*                yield downloadData(startOffset.plus(MAX_CHUNK_SIZE * currChunk++))
DrainFrom(so, q, cc, fs, rq) ==
  IF Len(q) > 0
    THEN Suspend("drain", Shift(q).val, Shift(q).rest, cc, fs, rq)
    ELSE Suspend("tail1", cc, q, cc + 1, Issued(fs, cc), Append(rq, ChunkOffset(so, cc)))

\* lines 120-124: while (currChunk < parallelChunks) { push; yield shift }
LoopFrom(sz, so, q, cc, fs, rq) ==
  IF cc < ParallelChunks(sz)
    THEN LET q2 == Append(q, cc)
         IN Suspend("window", Shift(q2).val, Shift(q2).rest, cc + 1,
                    Issued(fs, cc), Append(rq, ChunkOffset(so, cc)))
    ELSE DrainFrom(so, q, cc, fs, rq)

\* line 118: for (let i = 0; i < concurrency; i++) processing.push(downloadData(...))
\* the number of fetches this loop issues
WindowSize(sz, c) == IF Concurrency(sz, c) > 0 THEN Concurrency(sz, c) ELSE 0

\* The generator continues after a yield, from the statement it stopped at.
Resume ==
  CASE phase = "window" ->
         LoopFrom(size, startOffset, processing, currChunk, fstat, requests)
    [] phase = "drain" ->
         DrainFrom(startOffset, processing, currChunk, fstat, requests)
    [] phase = "tail1" ->
         AfterFirstTail(size, startOffset, processedBytes, processing, currChunk,
                        fstat, requests)
    [] phase = "tail2" -> FinalCheck(size, processedBytes)

\* The process is alive: no unhandled rejection has ended it.
Alive == proc # "exited"

\* The promise of chunk i has a rejection handler: the generator attaches one
\* only when it yields (awaits) the promise; a promise waiting in `processing`,
\* or left behind by a generator that ended or is not pulled, has none.
Handled(i) == pc = "await" /\ awaiting = i

\* Jobs of the microtask queue that are ready to run: the continuation of the
\* generator on a settled promise, and in downloadChunkedData the body of
\* for await with its next(). (A consumer of the generator itself calls next()
\* when it likes.)
MicrotasksReady ==
  \/ pc = "await" /\ fstat[awaiting] \in {"ok", "failed"}
  \/ call = "download" /\ dpc = "loop" /\ pc = "yielded"

\* What the runtime does with an unhandled rejection: by default it ends the
\* process; where the embedding program tolerates unhandled rejections (its own
\* unhandledRejection handler, or a warn policy) the process goes on, and then
\* goes on after every later one as well.
Unhandled(p) == IF p = "tolerant" THEN {"tolerant"} ELSE {"exited", "tolerant"}

\* ------------------------------------------------------------- actions
\* A caller iterates concurrentDownloadChunkedData(id, {concurrency: c}) (c = the
\* default when no option is given); the first next() runs to the metadata await.
CallStream(c) ==
  /\ call = "none"
  /\ call' = "stream" /\ opt' = c
  /\ pc' = "meta" /\ metaReqs' = metaReqs + 1
  /\ UNCHANGED <<consumer, stopMark, proc, unhandled, phase, err, size, startOffset, currChunk, processing,
                 awaiting, fstat, flen, processedBytes, yielded, requests, dvars>>
  /\ UNCHANGED <<bvars, cvars>>
  /\ UNCHANGED <<fresp, completed, mresp>>

\* A caller invokes downloadChunkedData(id): line 79 awaits the metadata.
CallDownload ==
  /\ call = "none"
  /\ call' = "download" /\ opt' = DefaultConcurrency
  /\ dpc' = "meta" /\ metaReqs' = metaReqs + 1
  /\ UNCHANGED <<consumer, stopMark, proc, unhandled, gvars, derr, dsize, data, byte>>
  /\ UNCHANGED <<bvars, cvars>>

\* The metadata response of downloadChunkedData arrives (lines 79-83): on success
\* the buffer is allocated and for await makes the generator's first next().
DownloadMetadata(status, sz) ==
  /\ Alive /\ dpc = "meta"
  /\ mresp' = Append(mresp, status)
  /\ IF MetadataOk(status)
       THEN /\ dpc' = "loop" /\ dsize' = sz /\ data' = <<>> /\ byte' = 0
            /\ pc' = "meta" /\ metaReqs' = metaReqs + 1
            /\ UNCHANGED derr
       ELSE /\ dpc' = "failed" /\ derr' = "metadata"
            /\ UNCHANGED <<pc, metaReqs, dsize, data, byte>>
  /\ UNCHANGED <<call, opt, consumer, stopMark, proc, unhandled, phase, err, size, startOffset, currChunk,
                 processing, awaiting, fstat, flen, processedBytes, yielded, requests>>
  /\ UNCHANGED <<bvars, cvars>>
  /\ UNCHANGED <<fresp, completed>>

\* The generator's metadata response arrives (lines 92-128): on success the plan
\* is computed, the window is filled and the generator runs to its first await.
Metadata(status, sz, start) ==
  /\ Alive /\ pc = "meta"
  /\ mresp' = Append(mresp, status)
  /\ IF MetadataOk(status)
       THEN LET so == FirstChunkOffset(start + sz - 1, sz)
                n  == WindowSize(sz, opt)
                q  == [i \in 1..n |-> i - 1]
                fs == [i \in Indices |-> IF i < n THEN "pending" ELSE fstat[i]]
                rq == [i \in 1..n |-> ChunkOffset(so, i - 1)]
            IN /\ size' = sz /\ startOffset' = so
               /\ LoopFrom(sz, so, q, n, fs, rq)
       ELSE /\ Finish("failed", "metadata")
            /\ UNCHANGED <<size, startOffset>>
  /\ UNCHANGED <<call, opt, metaReqs, consumer, stopMark, proc, flen, processedBytes, yielded,
                 dsize, data, byte>>
  /\ UNCHANGED <<bvars, cvars>>
  /\ UNCHANGED <<fresp, completed>>

\* The response of the chunk request for index i arrives (getChunk, getChunkData
\* and the then-callback of downloadData, lines 30-42 and 102-106). A response
\* that is not a success rejects the promise; when the generator is not awaiting
\* that promise the rejection has no handler yet; the runtime looks at it later
\* (CheckRejections), and a yield of the promise in between handles it.
FetchDone(i, status, n) ==
  /\ Alive /\ fstat[i] = "pending"
  /\ unhandled' = IF ChunkOk(status) \/ Handled(i)
                    THEN unhandled ELSE unhandled \cup {i}
  /\ fresp' = [fresp EXCEPT ![i] = status]
  /\ completed' = Append(completed, i)
  /\ IF ChunkOk(status)
       THEN /\ fstat' = [fstat EXCEPT ![i] = "ok"]
            /\ flen' = [flen EXCEPT ![i] = n]
            /\ processedBytes' = Counted(processedBytes, n)
       ELSE /\ fstat' = [fstat EXCEPT ![i] = "failed"]
            /\ UNCHANGED <<flen, processedBytes>>
  /\ UNCHANGED <<call, opt, metaReqs, consumer, stopMark, proc, pc, phase, err, size,
                 startOffset, currChunk, processing, awaiting, yielded, requests, dvars>>
  /\ UNCHANGED <<bvars, cvars>>
  /\ UNCHANGED mresp

\* The runtime, once the microtask queue has drained, looks at the promises that
\* were rejected and still have no handler.
CheckRejections ==
  /\ Alive /\ unhandled # {} /\ ~MicrotasksReady
  /\ proc' \in Unhandled(proc)
  /\ unhandled' = {}
  /\ UNCHANGED <<call, opt, metaReqs, consumer, stopMark, gvars, dvars>>
  /\ UNCHANGED <<bvars, cvars>>

\* The awaited promise has resolved: its chunk is yielded to the consumer.
Deliver ==
  /\ Alive /\ pc = "await" /\ fstat[awaiting] = "ok"
  /\ pc' = "yielded" /\ yielded' = Append(yielded, awaiting)
  /\ awaiting' = NoChunk
  /\ UNCHANGED <<call, opt, metaReqs, consumer, stopMark, proc, unhandled, phase, err, size, startOffset,
                 currChunk, processing, fstat, flen, processedBytes, requests, dvars>>
  /\ UNCHANGED <<bvars, cvars>>
  /\ UNCHANGED <<fresp, completed, mresp>>

\* The awaited promise has rejected: the generator throws the chunk error.
Throw ==
  /\ Alive /\ pc = "await" /\ fstat[awaiting] = "failed"
  /\ Finish("failed", "chunk")
  /\ UNCHANGED <<call, opt, metaReqs, consumer, stopMark, proc, size, startOffset, flen,
                 processedBytes, yielded, dsize, data, byte>>
  /\ UNCHANGED <<bvars, cvars>>
  /\ UNCHANGED <<fresp, completed, mresp>>

\* Variant: the generator runs on to its next chunk whether or not it is asked.
PullEager ==
  /\ Alive /\ call = "stream" /\ pc = "yielded"
  /\ Resume
  /\ UNCHANGED <<call, opt, metaReqs, consumer, stopMark, proc, size, startOffset, flen,
                 processedBytes, yielded, dsize, data, byte>>
  /\ UNCHANGED <<bvars, cvars>>
  /\ UNCHANGED <<fresp, completed, mresp>>

\* The consumer of the stream asks for the next chunk.
Pull ==
  /\ Alive /\ call = "stream" /\ pc = "yielded" /\ consumer = "pulling"
  /\ Resume
  /\ UNCHANGED <<call, opt, metaReqs, consumer, stopMark, proc, size, startOffset, flen,
                 processedBytes, yielded, dsize, data, byte>>
  /\ UNCHANGED <<bvars, cvars>>
  /\ UNCHANGED <<fresp, completed, mresp>>

\* The consumer of the stream stops pulling.
Stop ==
  /\ Alive /\ call = "stream" /\ pc = "yielded" /\ consumer = "pulling"
  /\ consumer' = "stopped" /\ stopMark' = Len(completed)
  /\ UNCHANGED <<call, opt, metaReqs, proc, unhandled, gvars, dvars>>
  /\ UNCHANGED <<bvars, cvars>>
  /\ UNCHANGED <<fresp, completed, mresp>>

\* The body of for await in downloadChunkedData (lines 83-86) and its next():
\* data.set(chunkData, byte) throws a RangeError when the chunk does not fit,
\* which closes the generator.
Consume ==
  /\ Alive /\ call = "download" /\ dpc = "loop" /\ pc = "yielded"
  /\ LET idx == yielded[Len(yielded)]
         n   == flen[idx]
     IN IF byte + n > dsize
          THEN /\ dpc' = "failed" /\ derr' = "range"
               /\ pc' = "returned"
               /\ UNCHANGED <<data, byte, phase, err, currChunk, processing,
                              awaiting, fstat, requests, unhandled>>
          ELSE /\ data' = Append(data, [at |-> byte, idx |-> idx, len |-> n])
               /\ byte' = byte + n
               /\ Resume
  /\ UNCHANGED <<call, opt, metaReqs, consumer, stopMark, proc, size, startOffset, flen,
                 processedBytes, yielded, dsize>>
  /\ UNCHANGED <<bvars, cvars>>
  /\ UNCHANGED <<fresp, completed, mresp>>

Next ==
  \/ \E c \in Concurrencies : CallStream(c)
  \/ CallDownload
  \/ \E st \in Statuses, sz \in Sizes : DownloadMetadata(st, sz)
  \/ \E st \in Statuses, sz \in Sizes, s \in Starts : Metadata(st, sz, s)
  \/ \E i \in Indices, st \in Statuses, n \in Lens : FetchDone(i, st, n)
  \/ CheckRejections
  \/ Deliver
  \/ Throw
  \/ Pull
  \/ Stop
  \/ Consume

Spec == Init /\ [][Next]_vars

\* The same program with every request answered in the end, the generator run
\* by the event loop whenever it can, and a consumer that pulls again unless it
\* stops. Nothing forces a call to be made or the consumer to stop.
FairSpec ==
  /\ Spec
  /\ WF_vars(\E st \in Statuses, sz \in Sizes : DownloadMetadata(st, sz))
  /\ WF_vars(\E st \in Statuses, sz \in Sizes, s \in Starts : Metadata(st, sz, s))
  /\ WF_vars(\E i \in Indices, st \in Statuses, n \in Lens : FetchDone(i, st, n))
  /\ WF_vars(CheckRejections)
  /\ WF_vars(Deliver)
  /\ WF_vars(Throw)
  /\ WF_vars(Pull)
  /\ WF_vars(Consume)

TypeOK ==
  /\ call \in {"none", "stream", "download"}
  /\ proc \in {"running", "tolerant", "exited"}
  /\ unhandled \subseteq Indices
  /\ pc \in {"idle", "meta", "await", "yielded", "done", "failed", "returned"}
  /\ phase \in {"none", "window", "drain", "tail1", "tail2"}
  /\ err \in {"none", "metadata", "chunk", "size"}
  /\ awaiting \in Indices \cup {NoChunk}
  /\ \A k \in 1..Len(processing) : processing[k] \in Indices
  /\ \A k \in 1..Len(yielded) : yielded[k] \in Indices
  /\ currChunk \in Indices \cup {MaxChunks + 2}

\* ------------------------------------------------------------ properties
Last(q) == q[Len(q)]
Max(a, b) == IF a > b THEN a ELSE b
\* the generator runs on from a yield (the consumer's next())
Resumed == pc = "yielded" /\ pc' \in {"await", "done", "failed"}
Pending == {i \in Indices : fstat[i] = "pending"}
Failed == {i \in Indices : fresp[i] # 0 /\ fresp[i] # 200}
\* position of chunk index i in the completion order (0: not completed)
CompletedAt(i) ==
  IF \E k \in 1..Len(completed) : completed[k] = i
    THEN CHOOSE k \in 1..Len(completed) : completed[k] = i
    ELSE 0

\* C1: the k-th chunk yielded is the result of the fetch for chunk index k
\* (counting from 0), requested at startOffset + k * MAX_CHUNK_SIZE, whatever the
\* order in which the outstanding fetches completed.
C1_YieldsInIndexOrder ==
  \A k \in 1..Len(yielded) :
    /\ yielded[k] = k - 1
    /\ fstat[yielded[k]] = "ok"
    /\ requests[k] = ChunkOffset(startOffset, k - 1)

\* C1 witness: three chunks were yielded although the fetch of chunk 1 completed
\* before that of chunk 0, and that of chunk 2 before that of chunk 1.
C1_Witness ==
  /\ Len(yielded) >= 3
  /\ CompletedAt(2) < CompletedAt(1)
  /\ CompletedAt(1) < CompletedAt(0)

\* C2: the generator returns normally only with the yielded bytes equal to the
\* declared size; the size error is thrown only at the end (every issued fetch
\* yielded, tail phase reached, nothing outstanding), and only on a mismatch.
C2_SizeVerifiedAtEnd ==
  /\ pc = "done" => SumLen(yielded, flen) = size
  /\ (pc = "failed" /\ err = "size") =>
       /\ SumLen(yielded, flen) # size
       /\ phase \in {"tail1", "tail2"}
       /\ Len(yielded) = Len(requests)
       /\ Pending = {}
  /\ (pc \in {"await", "yielded"} /\ phase \in {"window", "drain"}) => err = "none"

\* C2 witness: a download of four chunks or more ended with the size error after
\* the last chunk, the chunks returned being longer than declared.
C2_Witness ==
  /\ pc = "failed" /\ err = "size"
  /\ Len(yielded) >= 4
  /\ SumLen(yielded, flen) > size

\* C3 (as claimed): during the parallel phase at most
\* min(chunkCount - 2, configured concurrency) chunk fetches are outstanding.
C3_WindowBound ==
  (pc \in {"await", "yielded"} /\ phase \in {"window", "drain"}) =>
    Cardinality(Pending) <= Min(ChunkCount(size) - 2, opt)

\* C4 (as claimed): from the moment a chunk fetch has failed, no further chunk is
\* yielded and no further chunk fetch is issued.
C4_AbortsAtFailure ==
  [][Failed # {} => (yielded' = yielded /\ requests' = requests)]_vars

\* What does hold around a failed chunk fetch (the part of C4 the code keeps):
\* the generator throws the chunk error only when it awaits the failed fetch;
\* until then only chunks of lower index are yielded; once it has thrown nothing
\* is yielded or issued any more; a failed fetch is never yielded, and the
\* generator never returns normally after one.
C4_AbortsWhenAwaited ==
  [][/\ (pc = "failed" => (pc' = "failed" /\ err' = err /\ yielded' = yielded
                            /\ requests' = requests))
     /\ (pc # "failed" /\ pc' = "failed" /\ err' = "chunk") =>
          (pc = "await" /\ awaiting \in Failed)
     /\ (pc = "await" /\ awaiting \in Failed) =>
          (yielded' = yielded /\ requests' = requests)
     /\ \A i \in Failed : yielded' # yielded => Last(yielded') < i
     /\ Failed' # {} => pc' # "done"
     /\ \A k \in 1..Len(yielded') : yielded'[k] \notin Failed'
    ]_vars

\* A state where that happens: the generator has thrown the chunk error after it
\* had yielded a chunk and issued a fetch while a fetch of higher index had
\* already failed.
C4_Witness ==
  /\ pc = "failed" /\ err = "chunk"
  /\ \E i \in Failed :
       /\ Len(yielded) >= 1 /\ CompletedAt(i) < CompletedAt(Last(yielded))
       /\ \E j \in Indices : j > i /\ fstat[j] # "none"

\* C9 (as claimed): downloadChunkedData returns only a buffer whose length is the
\* declared size the chunks were verified against, written once at every position
\* by the yielded chunks in order.
C9_NoPartialSuccess ==
  dpc = "returned" =>
    /\ dsize = size
    /\ SumLen(yielded, flen) = dsize
    /\ Len(data) = Len(yielded)
    /\ \A k \in 1..Len(data) :
         /\ data[k].idx = yielded[k]
         /\ data[k].at = SumLen(SubSeq(yielded, 1, k - 1), flen)
         /\ data[k].len = flen[yielded[k]]

\* C10: after a metadata response that is not a success the call has failed with
\* the metadata error, and no chunk fetch was issued and no chunk yielded.
C10_MetadataFailureFirst ==
  (\E k \in 1..Len(mresp) : mresp[k] # 200) =>
    /\ requests = <<>> /\ yielded = <<>> /\ Pending = {}
    /\ IF call = "download" THEN dpc = "failed" /\ derr = "metadata"
                            ELSE pc = "failed" /\ err = "metadata"

\* C10 witness: the generator's own metadata request failed inside
\* downloadChunkedData, after the first one had succeeded.
C10_Witness ==
  /\ call = "download" /\ Len(mresp) = 2 /\ mresp[2] = 404
  /\ pc = "failed" /\ err = "metadata"

\* C11: once the consumer has stopped pulling (or has closed the generator), the
\* generator stays where it is: no chunk fetch is issued and no chunk is yielded
\* any more. The fetches already issued stay outstanding and can only complete.
C11_StoppedIsQuiet ==
  [][(consumer = "stopped" \/ pc = "returned") =>
       /\ requests' = requests /\ yielded' = yielded
       /\ pc' = pc /\ currChunk' = currChunk /\ consumer' = consumer
       /\ \A i \in Indices :
            /\ fstat[i] = "none" => fstat'[i] = "none"
            /\ fstat[i] = "pending" => fstat'[i] \in {"pending", "ok", "failed"}
    ]_vars

\* C11 witness: after the consumer stopped, one of the outstanding fetches has
\* completed and another one is still outstanding.
C11_Witness ==
  /\ consumer = "stopped"
  /\ stopMark < Len(completed)
  /\ Pending # {}

\* C12 (as claimed): when the chunk count is zero or less (declared size 0) the
\* generator issues no chunk fetch and yields nothing.
C12_EmptyForZeroSize ==
  (pc \notin {"idle", "meta"} /\ err # "metadata" /\ ChunkCount(size) <= 0) =>
    (requests = <<>> /\ yielded = <<>>)

\* C13 (as claimed): every chunk fetch issued is for an index within
\* 0..chunkCount-1, at offset startOffset + index * MAX_CHUNK_SIZE, and no
\* request is made at an offset past the end offset startOffset + size - 1.
C13_RequestsWithinContent ==
  \A k \in 1..Len(requests) :
    /\ k - 1 < ChunkCount(size)
    /\ requests[k] = startOffset + (k - 1) * MAX_CHUNK_SIZE
    /\ requests[k] <= startOffset + size - 1

\* C14: the tail phase issues its first fetch (the next unscheduled index)
\* whatever the sizes are, and yields its chunk; when the generator runs on from
\* that yield it issues a second fetch if and only if the bytes yielded so far are
\* strictly less than the declared size; nothing is issued after the second.
C14_TailFetches ==
  [][/\ (Resumed /\ phase = "drain" /\ processing = <<>>) =>
          (phase' = "tail1" /\ pc' = "await"
           /\ requests' = Append(requests, startOffset + Len(requests) * MAX_CHUNK_SIZE))
     /\ (pc = "meta" /\ pc' = "await" /\ ParallelChunks(size') <= 0) =>
          (phase' = "tail1" /\ requests' = <<startOffset'>>)
     /\ (phase \in {"tail1", "tail2"} /\ pc = "await" /\ pc' = "yielded") =>
          yielded' = Append(yielded, Len(requests) - 1)
     /\ (Resumed /\ phase = "tail1") =>
          IF SumLen(yielded, flen) < size
            THEN /\ phase' = "tail2" /\ pc' = "await"
                 /\ requests' =
                      Append(requests, startOffset + Len(requests) * MAX_CHUNK_SIZE)
            ELSE /\ phase' = "tail1" /\ pc' \in {"done", "failed"}
                 /\ requests' = requests
     /\ phase = "tail2" => (phase' = "tail2" /\ requests' = requests)
     /\ Len(requests') <= Max(ParallelChunks(size'), 0) + 2
    ]_vars

\* C14 witness: the generator returned after the first tail chunk alone, which
\* covered the declared size, without fetching a second one.
C14_Witness ==
  /\ pc = "done" /\ phase = "tail1"
  /\ size > 0 /\ Len(requests) = 1 /\ yielded = <<0>>

\* C15: a tail fetch is issued only when no chunk fetch is outstanding and every
\* chunk requested before has been yielded, so in the tail phase the only fetch
\* that can be outstanding is the one issued last; with a chunk count of two or
\* less at most one fetch is outstanding at any time.
C15_TailAlone ==
  [][/\ (phase' \in {"tail1", "tail2"} /\ requests' # requests) =>
          /\ Pending = {}
          /\ Len(yielded) = Len(requests)
          /\ \A k \in 1..Len(requests) : fstat[k - 1] = "ok"
          /\ Pending' = {Len(requests)}
     /\ phase \in {"tail1", "tail2"} => Pending \subseteq {Len(requests) - 1}
     /\ (pc \notin {"idle", "meta"} /\ ChunkCount(size) <= 2) =>
          Cardinality(Pending) <= 1
    ]_vars

\* C15 witness: after a parallel phase of two chunks or more, the second tail
\* fetch is the only outstanding fetch.
C15_Witness ==
  /\ phase = "tail2" /\ pc = "await"
  /\ Len(requests) >= 4
  /\ Pending = {Len(requests) - 1}

\* C16: the k-th chunk fetch issued is the fetch of index k - 1, so the fetches
\* are issued in ascending index order from 0 with none skipped and none issued
\* twice: the list of requests only grows at its end and a fetch that has been
\* answered, successfully or not, keeps its answer and is never issued again.
C16_AscendingOnce ==
  [][/\ \A k \in 1..Len(requests) :
          /\ requests[k] = startOffset + (k - 1) * MAX_CHUNK_SIZE
          /\ fstat[k - 1] # "none"
     /\ \A i \in Indices : (fstat[i] # "none") <=> (i < Len(requests))
     /\ currChunk = Len(requests)
     /\ \/ requests' = requests
        \/ /\ Len(requests') = Len(requests) + 1
           /\ SubSeq(requests', 1, Len(requests)) = requests
           /\ fstat[Len(requests)] = "none"
        \/ pc = "meta"
     /\ \A i \in Indices :
          /\ fstat[i] \in {"ok", "failed"} =>
               (fstat'[i] = fstat[i] /\ fresp'[i] = fresp[i] /\ flen'[i] = flen[i])
          /\ fstat[i] = "pending" => fstat'[i] # "none"
    ]_vars

\* C16 witness: the generator has thrown the chunk error with three fetches or
\* more issued, one of them failed, each index requested once.
C16_Witness ==
  /\ pc = "failed" /\ err = "chunk"
  /\ Len(requests) >= 3
  /\ Failed # {}
  /\ Len(completed) = Len(requests)

\* C17 (as claimed): a download call issues exactly one metadata request, and the
\* size of the output buffer is the size the chunks are planned and verified with.
C17_MetadataOnce ==
  /\ call # "none" => metaReqs = 1
  /\ (call = "download" /\ pc \notin {"idle", "meta"} /\ err # "metadata") =>
       dsize = size

\* the generator has ended (returned, thrown, or been closed by its consumer)
Ended == pc \in {"done", "failed", "returned"} \/ dpc = "failed"

\* C18 (as claimed): the generator never yields more than max(chunkCount, 2)
\* chunks, yields nothing once it has ended and stays ended; and when every
\* request is answered and the consumer keeps pulling, every call ends, by a
\* return or by an error thrown to the consumer (unless the consumer stops).
C18_Finite ==
  /\ [](Len(yielded) <= Max(ChunkCount(size), 2))
  /\ [][Ended => (Ended' /\ yielded' = yielded /\ requests' = requests)]_vars
  /\ (call # "none") ~> (Ended \/ consumer = "stopped")

\* A state where the bound of C18 is reached: the generator has returned after
\* yielding two chunks for content of a single chunk.
C18_Witness ==
  /\ pc = "done"
  /\ ChunkCount(size) = 1
  /\ Len(yielded) = 2

RECURSIVE SeqFetch(_, _, _, _, _, _, _)
\* The reference for C19: the same plan carried out strictly one fetch at a time
\* against the endpoint that answers index i with status st[i] and ln[i] bytes.
\* Chunk i is requested, awaited and yielded before chunk i + 1 is requested;
\* chunks up to index max(chunkCount - 2, 0) are fetched whatever the byte count,
\* one more if the bytes received are less than sz. The result is what was
\* yielded, what was requested and how the download ended.
SeqFetch(sz, so, st, ln, i, ys, rq) ==
  LET rq2  == Append(rq, so + i * MAX_CHUNK_SIZE)
      ys2  == Append(ys, i)
      got  == SumLen(ys2, ln)
      tail == Max(((sz + MAX_CHUNK_SIZE - 1) \div MAX_CHUNK_SIZE) - 2, 0)
  IN IF st[i] # 200
       THEN [yielded |-> ys, requests |-> rq, outcome |-> "chunk", asked |-> rq2]
     ELSE IF i < tail \/ (i = tail /\ got < sz)
       THEN SeqFetch(sz, so, st, ln, i + 1, ys2, rq2)
     ELSE [yielded |-> ys2, requests |-> rq2, asked |-> rq2,
           outcome |-> IF got = sz THEN "done" ELSE "size"]

\* the sequential reference for the answers recorded in this run
Sequential == SeqFetch(size, startOffset, fresp, flen, 0, <<>>, <<>>)

\* C19: whatever the configured concurrency and the order in which the fetches
\* completed, a run that ended normally or with the size error has yielded the
\* chunks, requested the offsets and ended the way the one-at-a-time download
\* does against the same answers. (A run ended by a failed fetch yields the same
\* chunks and ends the same way too; it has requested at least the same offsets.)
C19_SameAsSequential ==
  /\ (pc = "done" \/ (pc = "failed" /\ err = "size")) =>
       /\ yielded = Sequential.yielded
       /\ requests = Sequential.requests
       /\ Sequential.outcome = (IF pc = "done" THEN "done" ELSE "size")
  /\ (pc = "failed" /\ err = "chunk") =>
       /\ yielded = Sequential.yielded
       /\ Sequential.outcome = "chunk"
       /\ Len(Sequential.asked) <= Len(requests)
       /\ Sequential.asked = SubSeq(requests, 1, Len(Sequential.asked))

\* C19 witness: a run with concurrency 2 ended after four chunks or more whose
\* fetches did not complete in index order.
C19_Witness ==
  /\ pc \in {"done", "failed"} /\ err \in {"none", "size"}
  /\ opt = 2
  /\ Len(yielded) >= 4
  /\ CompletedAt(1) < CompletedAt(0)

\* C20: processedBytes grows by the length of a chunk when its fetch resolves
\* and is left alone by a yield; it is never less than the bytes yielded; and
\* whenever the generator reads it (running on from a tail yield, to decide on
\* the second tail fetch and to check the size) no fetch is outstanding and it
\* equals the bytes yielded.
C20_CounterAtReads ==
  [][/\ processedBytes >= SumLen(yielded, flen)
     /\ (Resumed /\ phase \in {"tail1", "tail2"}) =>
          (Pending = {} /\ processedBytes = SumLen(yielded, flen))
     /\ yielded' # yielded => processedBytes' = processedBytes
     /\ \A i \in Indices :
          (fstat[i] = "pending" /\ fstat'[i] = "ok") =>
            (processedBytes' = processedBytes + flen'[i] /\ yielded' = yielded)
     /\ processedBytes' # processedBytes =>
          \E i \in Indices : fstat[i] = "pending" /\ fstat'[i] = "ok"
    ]_vars

\* C20 witness: while the queue is drained, the counter is ahead of the bytes
\* yielded so far, fetches of chunks not yet yielded having resolved.
C20_Witness ==
  /\ phase = "drain" /\ pc = "yielded"
  /\ Len(yielded) >= 1
  /\ processedBytes > SumLen(yielded, flen)

\* ---------------------------------------------------------- ChunkBuffer
\* (lib/stream/chunker: modelled from its description and its tests)
RECURSIVE Flat(_)
\* Buffer.concat: the segments of bufs concatenated in order
Flat(bufs) == IF bufs = <<>> THEN <<>> ELSE Head(bufs) \o Flat(Tail(bufs))

\* The bytes pushed so far, in push order: 1, 2, ..., n
Bytes(n) == [k \in 1..n |-> k]

\* Whether pop(n) can be served: at least n bytes are buffered
Sufficient(bufs, n) == Len(Flat(bufs)) >= n

RECURSIVE TakeOverlap(_, _)
\* Variant: the split keeps the last byte handed out at the head of the rest.
TakeOverlap(bufs, n) ==
  IF n = 0 THEN [out |-> <<>>, rest |-> bufs]
  ELSE LET h == Head(bufs)
       IN IF Len(h) <= n
            THEN LET r == TakeOverlap(Tail(bufs), n - Len(h))
                 IN [out |-> h \o r.out, rest |-> r.rest]
            ELSE [out |-> SubSeq(h, 1, n),
                  rest |-> <<SubSeq(h, n, Len(h))>> \o Tail(bufs)]

RECURSIVE Take(_, _)
\* pop(n) on enough bytes: the n head bytes, spliced across segments; a head
\* segment longer than what is still needed is split and its rest kept at the head
Take(bufs, n) ==
  IF n = 0 THEN [out |-> <<>>, rest |-> bufs]
  ELSE LET h == Head(bufs)
       IN IF Len(h) <= n
            THEN LET r == Take(Tail(bufs), n - Len(h))
                 IN [out |-> h \o r.out, rest |-> r.rest]
            ELSE [out |-> SubSeq(h, 1, n),
                  rest |-> <<SubSeq(h, n + 1, Len(h))>> \o Tail(bufs)]

\* Variant: a pop that cannot be served drops what was buffered.
PopDraining(bufs, n) ==
  IF Sufficient(bufs, n)
    THEN [ok |-> TRUE, out |-> Take(bufs, n).out, rest |-> Take(bufs, n).rest]
    ELSE [ok |-> FALSE, out |-> <<>>, rest |-> <<>>]

\* pop(n): fails without consuming when fewer than n bytes are buffered
PopResult(bufs, n) ==
  IF Sufficient(bufs, n)
    THEN [ok |-> TRUE, out |-> Take(bufs, n).out, rest |-> Take(bufs, n).rest]
    ELSE [ok |-> FALSE, out |-> <<>>, rest |-> bufs]

\* flush(): everything buffered, concatenated; the accumulator is left empty
FlushResult(bufs) == [out |-> Flat(bufs), rest |-> <<>>]

\* push(bytes): the segment is appended at the tail
PushResult(bufs, seg) == Append(bufs, seg)

\* The next n bytes of the input: pushed+1 .. pushed+n
NextBytes(from, n) == [k \in 1..n |-> from + k]

Push(n) ==
  /\ pushed + n <= MaxBytes /\ Len(pushLens) < MaxPushes
  /\ buffers' = PushResult(buffers, NextBytes(pushed, n))
  /\ pushed' = pushed + n /\ pushLens' = Append(pushLens, n)
  /\ lastOp' = "push" /\ lastArg' = n /\ lastOut' = <<>>
  /\ UNCHANGED <<returned, call, opt, metaReqs, consumer, stopMark, proc, unhandled, gvars, dvars, cvars>>

Pop(n) ==
  /\ LET r == PopResult(buffers, n)
     IN /\ buffers' = r.rest
        /\ lastOut' = r.out
        /\ returned' = returned \o r.out
        /\ lastOp' = (IF r.ok THEN "pop" ELSE "popfail")
  /\ lastArg' = n
  /\ UNCHANGED <<pushed, pushLens, call, opt, metaReqs, consumer, stopMark, proc, unhandled, gvars, dvars, cvars>>

Flush ==
  /\ LET r == FlushResult(buffers)
     IN /\ buffers' = r.rest
        /\ lastOut' = r.out
        /\ returned' = returned \o r.out
  /\ lastOp' = "flush" /\ lastArg' = 0
  /\ UNCHANGED <<pushed, pushLens, call, opt, metaReqs, consumer, stopMark, proc, unhandled, gvars, dvars, cvars>>

BufferNext ==
  \/ \E n \in 0..MaxSeg : Push(n)
  \/ \E n \in 0..MaxPop : Pop(n)
  \/ Flush

BufferSpec == Init /\ [][BufferNext]_vars

\* -------------------------------------------------------------- chunker
\* (lib/stream/chunker: modelled from its description and its tests)
RECURSIVE RechunkStrict(_, _)
\* Variant: a chunk is popped only while more than chunkSize bytes are buffered.
RechunkStrict(bufs, cs) ==
  IF Len(Flat(bufs)) > cs
    THEN LET r == PopResult(bufs, cs)
             t == RechunkStrict(r.rest, cs)
         IN [out |-> <<r.out>> \o t.out, rest |-> t.rest]
    ELSE [out |-> <<>>, rest |-> bufs]

RECURSIVE Rechunk(_, _)
\* while (buffered length >= chunkSize) yield pop(chunkSize):
\* the buffers yielded and the segments left
Rechunk(bufs, cs) ==
  IF Len(Flat(bufs)) >= cs
    THEN LET r == PopResult(bufs, cs)
             t == Rechunk(r.rest, cs)
         IN [out |-> <<r.out>> \o t.out, rest |-> t.rest]
    ELSE [out |-> <<>>, rest |-> bufs]

\* Variant: with flush set the rest is yielded even when it is empty.
RemainderAlways(bufs, fl) == IF fl THEN <<FlushResult(bufs).out>> ELSE <<>>

\* At the end of the input: with flush set and bytes left, the rest is yielded
Remainder(bufs, fl) ==
  IF fl /\ Len(Flat(bufs)) > 0 THEN <<FlushResult(bufs).out>> ELSE <<>>

\* chunker(cs, {flush: fl}) is set up on an input stream
ChunkerStart(cs, fl) ==
  /\ cpc = "idle"
  /\ cpc' = "reading" /\ chunkSize' = cs /\ flushOpt' = fl
  /\ UNCHANGED <<emitted, call, opt, metaReqs, consumer, stopMark, proc, unhandled, gvars, dvars, bvars>>

\* One input buffer of n bytes arrives: it is pushed, and every full chunk
\* buffered is popped and yielded
ChunkerInput(n) ==
  /\ cpc = "reading" /\ pushed + n <= MaxBytes /\ Len(pushLens) < MaxPushes
  /\ LET r == Rechunk(PushResult(buffers, NextBytes(pushed, n)), chunkSize)
     IN /\ buffers' = r.rest
        /\ emitted' = emitted \o r.out
  /\ pushed' = pushed + n /\ pushLens' = Append(pushLens, n)
  /\ UNCHANGED <<cpc, chunkSize, flushOpt, returned, lastOp, lastArg, lastOut,
                 call, opt, metaReqs, consumer, stopMark, proc, unhandled, gvars, dvars>>

\* The input is exhausted
ChunkerEnd ==
  /\ cpc = "reading"
  /\ cpc' = "done"
  /\ emitted' = emitted \o Remainder(buffers, flushOpt)
  /\ buffers' = (IF Remainder(buffers, flushOpt) = <<>> THEN buffers ELSE <<>>)
  /\ UNCHANGED <<chunkSize, flushOpt, pushed, pushLens, returned, lastOp, lastArg,
                 lastOut, call, opt, metaReqs, consumer, stopMark, proc, unhandled, gvars, dvars>>

ChunkerNext ==
  \/ \E cs \in 1..MaxPop, fl \in BOOLEAN : ChunkerStart(cs, fl)
  \/ \E n \in 0..MaxSeg : ChunkerInput(n)
  \/ ChunkerEnd

ChunkerSpec == Init /\ [][ChunkerNext]_vars

\* ------------------------------------------- properties of the rechunker
\* C5: what successful pops and flushes returned, followed by what is still
\* buffered, is the pushed bytes in push order; a successful pop(n) returns
\* exactly n bytes.
C5_BytesConserved ==
  /\ returned \o Flat(buffers) = Bytes(pushed)
  /\ lastOp = "pop" => Len(lastOut) = lastArg

\* C5 witness: after pushes of 2, 1 and 2 bytes and a pop(1), a pop(3) has
\* returned bytes 2, 3, 4: the rest of a split segment, a whole segment and the
\* head of a third one, which it split.
C5_Witness ==
  /\ pushLens = <<2, 1, 2>>
  /\ lastOp = "pop" /\ lastArg = 3 /\ lastOut = <<2, 3, 4>>
  /\ returned = <<1, 2, 3, 4>> /\ buffers = <<<<5>>>>

\* C6: a chunker without flush that has read its whole input of L bytes has
\* emitted floor(L / chunkSize) buffers of chunkSize bytes each, which are the
\* first floor(L / chunkSize) * chunkSize input bytes in order.
C6_NoFlushDropsRemainder ==
  (cpc = "done" /\ ~flushOpt) =>
    /\ Len(emitted) = pushed \div chunkSize
    /\ \A k \in 1..Len(emitted) : Len(emitted[k]) = chunkSize
    /\ Flat(emitted) = Bytes((pushed \div chunkSize) * chunkSize)

\* C6 witness: 5 bytes fed in buffers of 3 and 2 with chunkSize 2 gave two chunks,
\* the second spanning both input buffers, and the fifth byte was dropped.
C6_Witness ==
  /\ cpc = "done" /\ ~flushOpt /\ chunkSize = 2
  /\ pushLens = <<3, 2>>
  /\ emitted = <<<<1, 2>>, <<3, 4>>>>

\* C7: a chunker with flush that has read its whole input of L bytes has emitted
\* floor(L / chunkSize) buffers of chunkSize bytes and then, only if L mod
\* chunkSize is not zero, one buffer of L mod chunkSize bytes; together they are
\* the whole input, and no empty buffer is emitted at any time.
C7_FlushEmitsRemainder ==
  /\ \A k \in 1..Len(emitted) : Len(emitted[k]) > 0
  /\ (cpc = "done" /\ flushOpt) =>
       LET full == pushed \div chunkSize
           rem  == pushed % chunkSize
       IN /\ Len(emitted) = full + (IF rem = 0 THEN 0 ELSE 1)
          /\ \A k \in 1..full : Len(emitted[k]) = chunkSize
          /\ rem # 0 => Len(emitted[full + 1]) = rem
          /\ Flat(emitted) = Bytes(pushed)

\* C7 witness: an input of 4 bytes, an exact multiple of chunkSize 2, ended with
\* flush set and exactly two chunks emitted.
C7_Witness ==
  /\ cpc = "done" /\ flushOpt /\ chunkSize = 2 /\ pushed = 4
  /\ Len(emitted) = 2

\* C8: a pop(n) fails exactly when fewer than n bytes are buffered, and then the
\* buffered segments are left as they were and nothing is returned; a flush
\* returns everything buffered (nothing when empty) and leaves nothing buffered.
C8_FailedPopKeepsState ==
  [][/\ lastOp' = "popfail" =>
          (Len(Flat(buffers)) < lastArg' /\ buffers' = buffers /\ lastOut' = <<>>
           /\ returned' = returned)
     /\ lastOp' = "pop" => Len(Flat(buffers)) >= lastArg'
     /\ lastOp' = "flush" =>
          (buffers' = <<>> /\ lastOut' = Flat(buffers)
           /\ (Flat(buffers) = <<>> => lastOut' = <<>>))
    ]_vars

\* C8 witness: a pop(3) has failed on two buffered bytes, which are still there.
C8_Witness ==
  /\ lastOp = "popfail" /\ lastArg = 3
  /\ Flat(buffers) = <<1, 2>>

====
